---- MODULE Spec2Model ----
(***************************************************************************)
(* Annotation session of the episode viewer (EpisodeViewerInner): the edit *)
(* cache (episodeLabel, the episode panel's fields, frameLabels,           *)
(* deletedFrameIndices, hasUnsavedChanges), the label load, the batch save *)
(* (handleSaveAllLabels), clear-all, and the annotation store they talk    *)
(* to.  The session modelled is one viewed episode of an original          *)
(* (non-derived) dataset: sourceInfo stays null, so every store request    *)
(* uses the viewed (org, dataset, episode) and the store variables hold    *)
(* the rows of that key only.                                              *)
(*                                                                         *)
(* A store call is one step: the request is applied to the store (or       *)
(* fails and changes nothing) and its response resumes the awaiting        *)
(* function.  alert() blocks the event loop, so nothing else runs between  *)
(* the alert of a finished save and its dismissal.                         *)
(*                                                                         *)
(* Left out: updated_at timestamps, and the episode fields keyNotes,       *)
(* armsUsed and remarks, which the code carries exactly like qualityTag.   *)
(***************************************************************************)
EXTENDS Integers, Sequences, FiniteSets, TLC

VARIABLES
    mount,                \* "mounted" | "ready" | "redirected" (labeller effect)
    labellerId,           \* useState<string | null>(null)
    isLoadingSourceInfo,  \* useState(true)
    load,                 \* loadLabels in flight: [pc]
    episodeLabel,         \* useState<EpisodeLabel | null>: <<>> or <<label>>
    panel,                \* EpisodeLabelPanel local fields
    frameLabels,          \* useState<FrameLabel[]>([])
    hasUnsavedChanges,    \* useState(false)
    isSaving,             \* useState(false)
    deletedFrameIndices,  \* useState<Set<number>>(new Set())
    kb,                   \* what the registered keydown handler closes over
    commit,               \* handleSaveAllLabels in flight
    clear,                \* handleClearAllLabels in flight: [pc, failed]
    labellers,            \* store table labellers (ids)
    frame_labels,         \* store table frame_labels, rows of the viewed key
    episode_labels,       \* store table episode_labels, rows of the viewed key
    gestures,             \* number of user gestures so far (edits, saves, clear-all)
    fn,                   \* a function of the code applied to an input, and its result
    lin                   \* lineage: viewed identity, cached map, sourceInfo, runs in flight

\* the variables of the annotation session
sessionVars == <<mount, labellerId, isLoadingSourceInfo, load, episodeLabel,
                 panel, frameLabels, hasUnsavedChanges, isSaving,
                 deletedFrameIndices, kb, commit, clear, labellers,
                 frame_labels, episode_labels, gestures>>

\* the variables the session's handlers never touch
otherVars == <<fn, lin>>

vars == <<sessionVars, otherVars>>

-----------------------------------------------------------------------------
(* Input sets and bounds *)

NULL == "null"
Absent == -1

\* largest quantity a litter item is clicked up to
MaxQty == 1

\* number of user gestures (edits, saves, clear-all) in one session
MaxGestures == 3

CurrentLabeller == "alice"
OtherLabeller == "bob"
StoredIds == {NULL, CurrentLabeller}

FrameIdxs == {0, 1}
LitterItems == {"oreo_wrapper"}
QualityInputs == {"high"}

\* phaseTag is PhaseTag | null in the panel, and an array after a load
ScalarPhase(tags) == [isArray |-> FALSE, tags |-> tags]
ArrayPhase(tags) == [isArray |-> TRUE, tags |-> tags]

InputA == [phaseTag |-> ScalarPhase({}), issueTags |-> {"left_arm_missed"}, notes |-> ""]
InputB == [phaseTag |-> ScalarPhase({"end_task"}), issueTags |-> {"left_arm_recovery"}, notes |-> ""]
FrameInputs == {InputA, InputB}

-----------------------------------------------------------------------------
(* Records and conversions *)

FrameLabel(f, who, in) ==
    [frameIdx |-> f, labellerId |-> who, phaseTag |-> in.phaseTag,
     issueTags |-> in.issueTags, notes |-> in.notes]

FrameRow(f, who, in) ==
    [frame_idx |-> f, labeller_id |-> who, phase_tag |-> in.phaseTag,
     issue_tags |-> in.issueTags, notes |-> in.notes]

\* frameRows = frameLabels.map(label => ({...}))
RowOfLabel(label) ==
    [frame_idx |-> label.frameIdx, labeller_id |-> label.labellerId,
     phase_tag |-> label.phaseTag, issue_tags |-> label.issueTags,
     notes |-> label.notes]

\* Array.isArray(row.phase_tag) ? row.phase_tag : (row.phase_tag ? [row.phase_tag] : [])
LoadPhase(p) == IF p.isArray THEN p ELSE ArrayPhase(p.tags)

\* frData.map((row) => ({...}))
LabelOfRow(row) ==
    [frameIdx |-> row.frame_idx, labellerId |-> row.labeller_id,
     phaseTag |-> LoadPhase(row.phase_tag), issueTags |-> row.issue_tags,
     notes |-> row.notes]

\* .order("frame_idx", { ascending: true })
RECURSIVE OrderByFrameIdx(_)
OrderByFrameIdx(rows) ==
    IF rows = {} THEN <<>>
    ELSE LET m == CHOOSE r \in rows : \A q \in rows : r.frame_idx <= q.frame_idx
         IN  <<m>> \o OrderByFrameIdx(rows \ {m})

MapRows(rowSeq) == [i \in 1..Len(rowSeq) |-> LabelOfRow(rowSeq[i])]

\* prev.findIndex((l) => l.frameIdx === f), 0 standing for -1
FindIndex(prev, f) ==
    IF \E i \in 1..Len(prev) : prev[i].frameIdx = f
    THEN CHOOSE i \in 1..Len(prev) :
            /\ prev[i].frameIdx = f
            /\ \A j \in 1..(i - 1) : prev[j].frameIdx # f
    ELSE 0

\* an updater that adds the label whatever the list holds
AppendFrameLabel(prev, label) == Append(prev, label)

\* the updater of setFrameLabels in onFrameLabelSave
SetFrameLabel(prev, label) ==
    LET idx == FindIndex(prev, label.frameIdx)
    IN  IF idx = 0 THEN Append(prev, label) ELSE [prev EXCEPT ![idx] = label]

\* prev.filter((l) => l.frameIdx !== frameIdx)
FilterOutFrame(prev, f) == SelectSeq(prev, LAMBDA l : l.frameIdx # f)

\* the updater of setDeletedFrameIndices in onFrameLabelDelete:
\* new Set(prev).add(frameIdx)
AddDeleted(prev, f) == prev \cup {f}

DraftIdxs(labels) == {labels[i].frameIdx : i \in 1..Len(labels)}
SeqRange(s) == {s[i] : i \in 1..Len(s)}

EmptyItems == [i \in LitterItems |-> Absent]
DefaultPanel == [qualityTag |-> NULL, litterItems |-> EmptyItems]

\* getCurrentLabel of the panel ref
GetCurrentLabel ==
    [labellerId |-> labellerId, qualityTag |-> panel.qualityTag,
     litterItems |-> panel.litterItems]

\* the early return of the debounced onChange effect
PanelIsEmpty ==
    /\ panel.qualityTag = NULL
    /\ \A i \in LitterItems : panel.litterItems[i] = Absent

\* the filter alone, an empty map written as it is
LitterItemsFilteredOnly(items) ==
    <<[i \in DOMAIN items |-> IF items[i] > 0 THEN items[i] ELSE Absent]>>

\* litterItemsFiltered / litterItemsToSave: <<>> is null
LitterItemsToSave(items) ==
    LET filtered == [i \in DOMAIN items |-> IF items[i] > 0 THEN items[i] ELSE Absent]
    IN  IF \E i \in DOMAIN items : filtered[i] # Absent THEN <<filtered>> ELSE <<>>

\* episodeData
EpisodeData(label, who) ==
    [labeller_id |-> who, quality_tag |-> label.qualityTag,
     litter_items |-> LitterItemsToSave(label.litterItems)]

\* setEpisodeLabel({...}) of loadLabels: litter_items ?? {}
EpisodeLabelOfRow(row) ==
    [labellerId |-> row.labeller_id, qualityTag |-> row.quality_tag,
     litterItems |-> IF row.litter_items = <<>> THEN EmptyItems ELSE row.litter_items[1]]

\* the panel's sync effect on initialLabel
PanelOfLabel(label) == [qualityTag |-> label.qualityTag, litterItems |-> label.litterItems]

-----------------------------------------------------------------------------
(* Store operations *)

\* .delete().eq(key).eq("labeller_id", labellerId).in("frame_idx", [...])
DeleteFrames(rows, who, idxs) ==
    {r \in rows : ~(r.labeller_id = who /\ r.frame_idx \in idxs)}

\* .upsert(frameRows, { onConflict: "org_id,dataset_id,episode_id,frame_idx" })
UpsertFrames(rows, newRows) ==
    {r \in rows : \A n \in newRows : n.frame_idx # r.frame_idx} \cup newRows

\* .upsert(episodeData, { onConflict: "org_id,dataset_id,episode_id" })
UpsertEpisode(rows, row) == {row}

-----------------------------------------------------------------------------
(* Initial state *)

InitFrameTables ==
    { {},
      {FrameRow(0, OtherLabeller, InputA)},
      {FrameRow(0, CurrentLabeller, InputB),
       FrameRow(1, CurrentLabeller, [InputA EXCEPT !.phaseTag = ArrayPhase({"end_task"})])} }

InitEpisodeTables ==
    { {},
      {[labeller_id |-> CurrentLabeller, quality_tag |-> "high", litter_items |-> <<>>]} }

\* the edit cache as one value
Cache(ep, pn, fl, del) ==
    [episodeLabel |-> ep, panel |-> pn, frameLabels |-> fl,
     deletedFrameIndices |-> del]

\* the edit cache now
CacheNow == Cache(episodeLabel, panel, frameLabels, deletedFrameIndices)

\* no save in flight.  Of a save: pc is the request awaited (or the alert
\* shown); frameLabels, deletedFrameIndices and labelToSave are what the
\* invoked function reads; issued lists the answered requests; cache0 (the
\* cache at invocation) and inflight (what else ran since) are history.
\* pairingWarnings is the list the function consulted; an idle record with
\* gesture > 0 is left by a save cancelled at its confirmation, gesture
\* telling which gesture of the session that was.
IdleCommit ==
    [pc |-> "idle", via |-> "none", frameLabels |-> <<>>,
     deletedFrameIndices |-> {}, pairingWarnings |-> <<>>, gesture |-> 0,
     labelToSave |-> <<>>, issued |-> <<>>,
     cache0 |-> Cache(<<>>, DefaultPanel, <<>>, {}), inflight |-> {}]

\* no clear-all in flight; failed lists the deletes of the last one that
\* returned an error
NoClear == [pc |-> "idle", failed |-> {}]

\* no function applied yet
NoCall == [op |-> "none"]

\* datasets the viewer is pointed at, and their episodes
Datasets == {"a", "b"}
Episodes == {0, 1}

\* a run of loadSourceMetadata: repoId and episodeId are those of the render
\* that started it; pc is the await it is suspended at
Run(id, dataset, episodeId, pc) ==
    [id |-> id, dataset |-> dataset, episodeId |-> episodeId, pc |-> pc]

\* no request to switch episode made yet
NoSwitch == [via |-> "none", target |-> 0, dirty |-> FALSE, asked |-> FALSE,
             confirmed |-> FALSE]

\* the drafts hold nothing read from the store yet
NothingShown == [episode |-> <<>>, frames |-> <<>>]

\* the first render: nothing cached, loadSourceMetadata started for the
\* viewed dataset, no label load or save issued yet.  loads are the runs of
\* loadLabels awaiting a select; shown tells under which storage key the
\* episode draft and the frame drafts were last read
LineageAtMount ==
    [dataset |-> "a", episodeId |-> 0,
     episodesMetadataMap |-> <<>>, sourceInfo |-> <<>>,
     runs |-> {Run(1, "a", 0, "version")}, started |-> 1,
     resolution |-> "pending", issued |-> {}, navigations |-> 0,
     switch |-> NoSwitch, loads |-> {}, shown |-> NothingShown]

Init ==
    /\ mount = "mounted"
    /\ labellerId = NULL
    /\ isLoadingSourceInfo = TRUE
    /\ load = [pc |-> "idle"]
    /\ episodeLabel = <<>>
    /\ panel = DefaultPanel
    /\ frameLabels = <<>>
    /\ hasUnsavedChanges = FALSE
    /\ isSaving = FALSE
    /\ deletedFrameIndices = {}
    /\ kb = [frameLabels |-> <<>>, deletedFrameIndices |-> {},
             pairingWarnings |-> <<>>]
    /\ commit = IdleCommit
    /\ clear = NoClear
    /\ labellers = {}
    /\ frame_labels \in InitFrameTables
    /\ episode_labels \in InitEpisodeTables
    /\ gestures = 0
    /\ fn = NoCall
    /\ lin = LineageAtMount

-----------------------------------------------------------------------------
(* Pairing checker *)

\* PAIRED_ISSUE_TAGS
PAIRED_ISSUE_TAGS ==
    << [tagA |-> "left_arm_missed", tagB |-> "left_arm_recovery"],
       [tagA |-> "right_arm_missed", tagB |-> "right_arm_recovery"],
       [tagA |-> "left_arm_litter_stuck_gripper", tagB |-> "left_arm_recovery"],
       [tagA |-> "right_arm_litter_stuck_gripper", tagB |-> "right_arm_recovery"],
       [tagA |-> "left_arm_litter_dropped", tagB |-> "left_arm_recovery"],
       [tagA |-> "right_arm_litter_dropped", tagB |-> "right_arm_recovery"] >>

\* the keys of recoveryGroups, in insertion order
RecoveryTags ==
    LET firstOf(i) == \A j \in 1..(i - 1) : PAIRED_ISSUE_TAGS[j].tagB # PAIRED_ISSUE_TAGS[i].tagB
        RECURSIVE keys(_)
        keys(i) == IF i > Len(PAIRED_ISSUE_TAGS) THEN <<>>
                   ELSE (IF firstOf(i) THEN <<PAIRED_ISSUE_TAGS[i].tagB>> ELSE <<>>)
                        \o keys(i + 1)
    IN  keys(1)

\* recoveryGroups.get(recoveryTag): the tagA values pushed, in order
RecoveryGroup(recoveryTag) ==
    LET RECURSIVE tags(_)
        tags(i) == IF i > Len(PAIRED_ISSUE_TAGS) THEN <<>>
                   ELSE (IF PAIRED_ISSUE_TAGS[i].tagB = recoveryTag
                         THEN <<PAIRED_ISSUE_TAGS[i].tagA>> ELSE <<>>)
                        \o tags(i + 1)
    IN  tags(1)

\* the frames carrying the tag that come before the first one without it
FrameCountLeading(allLabels, tag) ==
    Cardinality({i \in 1..Len(allLabels) :
                    \A j \in 1..i : tag \in allLabels[j].issueTags})

\* allLabels.filter(l => l.issueTags.includes(tag)).length
FrameCount(allLabels, tag) ==
    Cardinality({i \in 1..Len(allLabels) : tag \in allLabels[i].issueTags})

\* the frames carrying at least one of the issue tags, each counted once
FramesWithAnyIssue(allLabels, issueTags) ==
    Cardinality({i \in 1..Len(allLabels) :
                    \E k \in 1..Len(issueTags) : issueTags[k] \in allLabels[i].issueTags})

\* totalIssueFrames after the loop over the group's issue tags:
\* totalIssueFrames += count for every tag with count > 0
TotalIssueFrames(allLabels, issueTags) ==
    LET RECURSIVE total(_)
        total(i) == IF i > Len(issueTags) THEN 0
                    ELSE FrameCount(allLabels, issueTags[i]) + total(i + 1)
    IN  total(1)

\* a warning for every mismatch of the totals
ShouldWarnOnMismatch(totalIssueFrames, recoveryCount) ==
    totalIssueFrames # recoveryCount

\* totalIssueFrames !== recoveryCount && totalIssueFrames > 0
ShouldWarn(totalIssueFrames, recoveryCount) ==
    totalIssueFrames # recoveryCount /\ totalIssueFrames > 0

\* the body of recoveryGroups.forEach: <<>> or the one warning pushed; the
\* warning string is kept as its parts
GroupWarning(allLabels, recoveryTag) ==
    LET issueTags == RecoveryGroup(recoveryTag)
        totalIssueFrames == TotalIssueFrames(allLabels, issueTags)
        issueList == SelectSeq(issueTags, LAMBDA t : FrameCount(allLabels, t) > 0)
        recoveryCount == FrameCount(allLabels, recoveryTag)
    IN  IF ShouldWarn(totalIssueFrames, recoveryCount)
        THEN << [issueList |-> issueList, totalIssueFrames |-> totalIssueFrames,
                 recoveryTag |-> recoveryTag, recoveryCount |-> recoveryCount] >>
        ELSE <<>>

\* checkPairedIssueTags
checkPairedIssueTags(allLabels) ==
    LET RECURSIVE warnings(_)
        warnings(i) == IF i > Len(RecoveryTags) THEN <<>>
                       ELSE GroupWarning(allLabels, RecoveryTags[i]) \o warnings(i + 1)
    IN  warnings(1)

\* the viewer's pairingWarnings once the frame panel's effect has lifted
\* its memo: checkPairedIssueTags(initialLabels), initialLabels the viewer's
\* frameLabels
pairingWarnings == checkPairedIssueTags(frameLabels)

-----------------------------------------------------------------------------
(* Scheduling helpers *)

InFlightPcs == {"labellers", "delete", "episode", "frames"}

\* alert() of handleSaveAllLabels is open: the event loop is blocked
Blocked == commit.pc \in {"alert_ok", "alert_failed"}

\* the viewer is rendered (labellerId known) and no dialog blocks it
UiReady == mount = "ready" /\ labellerId # NULL /\ ~Blocked

\* a user gesture, within the session's budget
Gesture ==
    /\ gestures < MaxGestures
    /\ gestures' = gestures + 1
    /\ UNCHANGED otherVars

\* history of what else ran while the save was in flight
NoteInflight(kind) ==
    IF commit.pc \in InFlightPcs
    THEN [commit EXCEPT !.inflight = @ \cup {kind}]
    ELSE commit

\* the keyboard effect re-registers handleKeyDown only when hasUnsavedChanges
\* or isSaving changed (frameLabels, deletedFrameIndices are not dependencies)
KbAfterWith(d, s, fl, del, warnings) ==
    IF d # hasUnsavedChanges \/ s # isSaving
    THEN [frameLabels |-> fl, deletedFrameIndices |-> del,
          pairingWarnings |-> warnings]
    ELSE kb

\* the re-registering render is the first after the handler: the lifted
\* pairingWarnings it sees are still those of the frameLabels of before
KbAfter(d, s, fl, del) == KbAfterWith(d, s, fl, del, pairingWarnings)

\* a loadLabels effect that waits for the lineage only
LoadEffectIgnoresLabeller(lab, loading) == ~loading

\* the guards of the loadLabels effect
LoadEffectRuns(lab, loading) == lab # NULL /\ ~loading

-----------------------------------------------------------------------------
(* Mount: labeller id and lineage metadata *)

\* useEffect(() => { const stored = localStorage.getItem("labeller_id"); ... }, [])
LabellerIdEffect ==
    /\ mount = "mounted"
    /\ \E stored \in StoredIds :
         IF stored = NULL
         THEN /\ mount' = "redirected"
              /\ UNCHANGED <<labellerId, load>>
         ELSE /\ mount' = "ready"
              /\ labellerId' = stored
              /\ load' = IF LoadEffectRuns(stored, isLoadingSourceInfo)
                         THEN [pc |-> "ep"] ELSE load
    /\ UNCHANGED <<isLoadingSourceInfo, episodeLabel, panel, frameLabels,
                   hasUnsavedChanges, isSaving, deletedFrameIndices, kb, commit,
                   clear, labellers, frame_labels, episode_labels,
                   gestures, otherVars>>

\* loadSourceMetadata settles with no lineage for the episode
LoadSourceMetadataDone ==
    /\ mount # "redirected"
    /\ ~Blocked
    /\ isLoadingSourceInfo
    /\ isLoadingSourceInfo' = FALSE
    /\ load' = IF LoadEffectRuns(labellerId, FALSE) THEN [pc |-> "ep"] ELSE load
    /\ UNCHANGED <<mount, labellerId, episodeLabel, panel, frameLabels,
                   hasUnsavedChanges, isSaving, deletedFrameIndices, kb, commit,
                   clear, labellers, frame_labels, episode_labels,
                   gestures, otherVars>>

-----------------------------------------------------------------------------
(* loadLabels *)

\* response of the episode_labels select (maybeSingle)
LoadEpisodeResp(ok) ==
    /\ ~Blocked
    /\ load.pc = "ep"
    /\ LET newLabel == IF ok /\ episode_labels # {}
                       THEN <<EpisodeLabelOfRow(CHOOSE r \in episode_labels : TRUE)>>
                       ELSE <<>>
       IN  /\ episodeLabel' = newLabel
           /\ panel' = IF newLabel # <<>> THEN PanelOfLabel(newLabel[1])
                       ELSE IF episodeLabel # <<>> THEN DefaultPanel
                       ELSE panel
    /\ load' = [pc |-> "fr"]
    /\ commit' = NoteInflight("load")
    /\ UNCHANGED <<mount, labellerId, isLoadingSourceInfo, frameLabels,
                   hasUnsavedChanges, isSaving, deletedFrameIndices, kb, clear,
                   labellers, frame_labels, episode_labels,
                   gestures, otherVars>>

\* response of the frame_labels select, then the reset of the flags
LoadFramesResp(ok) ==
    /\ ~Blocked
    /\ load.pc = "fr"
    /\ frameLabels' = IF ok THEN MapRows(OrderByFrameIdx(frame_labels)) ELSE <<>>
    /\ hasUnsavedChanges' = FALSE
    /\ deletedFrameIndices' = {}
    /\ kb' = KbAfterWith(FALSE, isSaving, frameLabels', {}, <<>>)
    /\ load' = [pc |-> "done"]
    /\ commit' = NoteInflight("load")
    /\ UNCHANGED <<mount, labellerId, isLoadingSourceInfo, episodeLabel, panel,
                   isSaving, clear, labellers, frame_labels, episode_labels,
                   gestures, otherVars>>

-----------------------------------------------------------------------------
(* Edits *)

\* an edit handler that leaves the flag as it finds it
DirtyLeftByEdit == hasUnsavedChanges

\* setHasUnsavedChanges(true) of onFrameLabelSave, onFrameLabelDelete and
\* onMarkDirty
DirtyAfterEdit == TRUE

\* onFrameLabelSave, called by the frame panel's handleSave
OnFrameLabelSave(f, in) ==
    /\ UiReady
    /\ Gesture
    /\ frameLabels' = SetFrameLabel(frameLabels, FrameLabel(f, labellerId, in))
    /\ hasUnsavedChanges' = DirtyAfterEdit
    /\ kb' = KbAfter(DirtyAfterEdit, isSaving, frameLabels', deletedFrameIndices)
    /\ commit' = NoteInflight("edit")
    /\ UNCHANGED <<mount, labellerId, isLoadingSourceInfo, load, episodeLabel,
                   panel, isSaving, deletedFrameIndices, clear, labellers,
                   frame_labels, episode_labels>>

\* onFrameLabelDelete, called by the frame panel's handleDelete; the Delete
\* button is rendered only for a frame that has a label
OnFrameLabelDelete(f) ==
    /\ UiReady
    /\ Gesture
    /\ f \in DraftIdxs(frameLabels)
    /\ frameLabels' = FilterOutFrame(frameLabels, f)
    /\ deletedFrameIndices' = AddDeleted(deletedFrameIndices, f)
    /\ hasUnsavedChanges' = DirtyAfterEdit
    /\ kb' = KbAfter(DirtyAfterEdit, isSaving, frameLabels', deletedFrameIndices')
    /\ commit' = NoteInflight("delete")
    /\ UNCHANGED <<mount, labellerId, isLoadingSourceInfo, load, episodeLabel,
                   panel, isSaving, clear, labellers, frame_labels,
                   episode_labels>>

\* an episode panel handler: the new field values, then onMarkDirty()
EpisodeEdit(newPanel) ==
    /\ UiReady
    /\ Gesture
    /\ panel' = newPanel
    /\ hasUnsavedChanges' = DirtyAfterEdit
    /\ kb' = KbAfter(DirtyAfterEdit, isSaving, frameLabels, deletedFrameIndices)
    /\ commit' = NoteInflight("episode")
    /\ UNCHANGED <<mount, labellerId, isLoadingSourceInfo, load, episodeLabel,
                   frameLabels, isSaving, deletedFrameIndices, clear, labellers,
                   frame_labels, episode_labels>>

\* the quality chip: qualityTag === tag ? null : tag
ToggleQuality(tag) ==
    EpisodeEdit([panel EXCEPT !.qualityTag = IF @ = tag THEN NULL ELSE tag])

\* (currentItems[item] || 0) + 1
IncrementLitterItem(item) ==
    /\ panel.litterItems[item] < MaxQty
    /\ EpisodeEdit([panel EXCEPT !.litterItems[item] = (IF @ = Absent THEN 0 ELSE @) + 1])

\* a decrement that writes the new quantity whatever it is
DecrementKeepingZero(item) ==
    LET cur == IF panel.litterItems[item] = Absent THEN 0 ELSE panel.litterItems[item]
        newQty == IF cur - 1 > 0 THEN cur - 1 ELSE 0
    IN  EpisodeEdit([panel EXCEPT !.litterItems[item] = newQty])

\* Math.max(0, (currentItems[item] || 0) - 1), the entry removed at 0
DecrementLitterItem(item) ==
    LET cur == IF panel.litterItems[item] = Absent THEN 0 ELSE panel.litterItems[item]
        newQty == IF cur - 1 > 0 THEN cur - 1 ELSE 0
    IN  EpisodeEdit([panel EXCEPT !.litterItems[item] = IF newQty = 0 THEN Absent ELSE newQty])

\* what the quantity field can hold, a string being its characters: empty,
\* "0", "1", "2", "-1", "0.5", "1.5"
QtyInputs ==
    { <<>>, <<"0">>, <<"1">>, <<"2">>, <<"-", "1">>, <<"0", ".", "5">>,
      <<"1", ".", "5">> }

DigitValue(c) == CASE c = "0" -> 0 [] c = "1" -> 1 [] c = "2" -> 2 [] OTHER -> -1

\* parseInt(value): an optional sign, then the digits up to the first
\* character that is none; NaN when there is no digit
parseInt(value) ==
    LET signed == Len(value) > 0 /\ value[1] \in {"-", "+"}
        body == IF signed THEN Tail(value) ELSE value
        digits == Cardinality({i \in 1..Len(body) :
                                  \A j \in 1..i : DigitValue(body[j]) >= 0})
        RECURSIVE number(_)
        number(n) == IF n = 0 THEN 0 ELSE 10 * number(n - 1) + DigitValue(body[n])
    IN  IF digits = 0 THEN [isNaN |-> TRUE, number |-> 0]
        ELSE [isNaN |-> FALSE,
              number |-> IF value[1] = "-" THEN 0 - number(digits) ELSE number(digits)]

\* handleQtyInput: the field is rendered for an item with a count
HandleQtyInput(item, value) ==
    LET qty == parseInt(value) IN
    /\ panel.litterItems[item] > 0
    /\ qty.isNaN \/ qty.number <= MaxQty
    /\ EpisodeEdit([panel EXCEPT !.litterItems[item] =
                        IF qty.isNaN \/ qty.number <= 0 THEN Absent ELSE qty.number])

\* the debounced onChange of the panel fires: setEpisodeLabel(label)
OnChangeTimer ==
    /\ UiReady
    /\ ~PanelIsEmpty
    /\ episodeLabel # <<GetCurrentLabel>>
    /\ episodeLabel' = <<GetCurrentLabel>>
    /\ commit' = NoteInflight("onchange")
    /\ UNCHANGED <<mount, labellerId, isLoadingSourceInfo, load, panel,
                   frameLabels, hasUnsavedChanges, isSaving, deletedFrameIndices,
                   kb, clear, labellers, frame_labels, episode_labels,
                   gestures, otherVars>>

-----------------------------------------------------------------------------
(* handleSaveAllLabels *)

\* the viewer's debounced copy of the episode draft
LabelToSaveFromState == episodeLabel

\* labelToSave = episodeLabelRef.current?.getCurrentLabel() || episodeLabel:
\* the panel is mounted whenever the viewer is rendered
LabelToSave == <<GetCurrentLabel>>

\* if (pairingWarnings.length > 0) { const confirmed = window.confirm(...) }
SaveAsksConfirmation(warnings) == Len(warnings) > 0

\* handleSaveAllLabels up to setIsSaving(true): frameLabels,
\* deletedFrameIndices and pairingWarnings are those of the closure the
\* caller holds, the episode label comes from the panel ref; a declined
\* confirmation returns
SaveStart(via, fl, del, warnings, confirmed) ==
    /\ UiReady
    /\ Gesture
    /\ hasUnsavedChanges /\ ~isSaving
    /\ IF SaveAsksConfirmation(warnings) /\ ~confirmed
       THEN /\ commit' = [IdleCommit EXCEPT !.via = via,
                                            !.frameLabels = fl,
                                            !.deletedFrameIndices = del,
                                            !.pairingWarnings = warnings,
                                            !.gesture = gestures + 1]
            /\ UNCHANGED <<isSaving, kb>>
       ELSE /\ isSaving' = TRUE
            /\ commit' = [pc |-> "labellers", via |-> via, frameLabels |-> fl,
                          deletedFrameIndices |-> del,
                          pairingWarnings |-> warnings, gesture |-> 0,
                          labelToSave |-> LabelToSave, issued |-> <<>>,
                          cache0 |-> Cache(episodeLabel, panel, frameLabels,
                                           deletedFrameIndices),
                          inflight |-> {}]
            /\ kb' = KbAfter(hasUnsavedChanges, TRUE, frameLabels, deletedFrameIndices)
    /\ UNCHANGED <<mount, labellerId, isLoadingSourceInfo, load, episodeLabel,
                   panel, frameLabels, hasUnsavedChanges, deletedFrameIndices,
                   clear, labellers, frame_labels, episode_labels>>

\* the Save All button: onSaveAll is the handleSaveAllLabels of this render
SaveAllButton ==
    \E confirmed \in BOOLEAN :
        SaveStart("button", frameLabels, deletedFrameIndices, pairingWarnings, confirmed)

\* Ctrl+S / Cmd+S: the handleSaveAllLabels the keydown handler closed over
CtrlS ==
    \E confirmed \in BOOLEAN :
        SaveStart("ctrl_s", kb.frameLabels, kb.deletedFrameIndices,
                  kb.pairingWarnings, confirmed)

Issue(op, ok) == [commit EXCEPT !.issued = Append(@, [op |-> op, ok |-> ok])]

\* which request follows the labeller upsert
AfterLabellers ==
    IF commit.deletedFrameIndices # {} THEN "delete"
    ELSE IF commit.labelToSave # <<>> THEN "episode"
    ELSE IF Len(commit.frameLabels) > 0 THEN "frames"
    ELSE "success"

\* which request follows the frame delete
AfterDelete ==
    IF commit.labelToSave # <<>> THEN "episode"
    ELSE IF Len(commit.frameLabels) > 0 THEN "frames"
    ELSE "success"

\* which request follows the episode upsert
AfterEpisode == IF Len(commit.frameLabels) > 0 THEN "frames" ELSE "success"

\* does an error result of the labellers upsert reach the catch block:
\* the awaited result is dropped, its error is never read
LabellersErrorThrows == FALSE

\* 5. Reset state on success
DirtyAfterSuccess == FALSE
DeletedAfterSuccess == {}

\* a catch block that resets the flag as the success branch does
DirtyResetAfterFailure == FALSE

\* catch: keep hasUnsavedChanges so the user can retry
DirtyAfterFailure == hasUnsavedChanges

\* the function goes on to the next request, or to the success branch and
\* its alert
Proceed(c, next) ==
    IF next = "success"
    THEN /\ commit' = [c EXCEPT !.pc = "alert_ok"]
         /\ hasUnsavedChanges' = DirtyAfterSuccess
         /\ deletedFrameIndices' = DeletedAfterSuccess
    ELSE /\ commit' = [c EXCEPT !.pc = next]
         /\ UNCHANGED <<hasUnsavedChanges, deletedFrameIndices>>

\* a catch block that empties the set as the success branch does
DeletedResetAfterFailure == {}

\* catch: deletedFrameIndices is not touched
DeletedAfterFailure == deletedFrameIndices

\* throw: the catch block and its alert
Fail(c) ==
    /\ commit' = [c EXCEPT !.pc = "alert_failed"]
    /\ hasUnsavedChanges' = DirtyAfterFailure
    /\ deletedFrameIndices' = DeletedAfterFailure

\* 1. await supabase.from("labellers").upsert(...)
CommitLabellersResp(ok) ==
    /\ ~Blocked
    /\ commit.pc = "labellers"
    /\ labellers' = IF ok THEN labellers \cup {labellerId} ELSE labellers
    /\ IF ~ok /\ LabellersErrorThrows
       THEN Fail(Issue("labellers.upsert", ok))
       ELSE Proceed(Issue("labellers.upsert", ok), AfterLabellers)
    /\ UNCHANGED <<mount, labellerId, isLoadingSourceInfo, load, episodeLabel,
                   panel, frameLabels, isSaving, kb, clear, frame_labels,
                   episode_labels,
                   gestures, otherVars>>

\* 2. delete of the explicitly deleted frames
CommitDeleteResp(ok) ==
    /\ ~Blocked
    /\ commit.pc = "delete"
    /\ frame_labels' = IF ok
                       THEN DeleteFrames(frame_labels, labellerId, commit.deletedFrameIndices)
                       ELSE frame_labels
    /\ IF ok
       THEN Proceed(Issue("frame_labels.delete", ok), AfterDelete)
       ELSE Fail(Issue("frame_labels.delete", ok))
    /\ UNCHANGED <<mount, labellerId, isLoadingSourceInfo, load, episodeLabel,
                   panel, frameLabels, isSaving, kb, clear, labellers,
                   episode_labels,
                   gestures, otherVars>>

\* 3. upsert of the episode label
CommitEpisodeResp(ok) ==
    /\ ~Blocked
    /\ commit.pc = "episode"
    /\ episode_labels' = IF ok
                         THEN UpsertEpisode(episode_labels,
                                  EpisodeData(commit.labelToSave[1], labellerId))
                         ELSE episode_labels
    /\ IF ok
       THEN Proceed(Issue("episode_labels.upsert", ok), AfterEpisode)
       ELSE Fail(Issue("episode_labels.upsert", ok))
    /\ UNCHANGED <<mount, labellerId, isLoadingSourceInfo, load, episodeLabel,
                   panel, frameLabels, isSaving, kb, clear, labellers,
                   frame_labels,
                   gestures, otherVars>>

\* 4. batch upsert of all frame labels
CommitFramesResp(ok) ==
    /\ ~Blocked
    /\ commit.pc = "frames"
    /\ frame_labels' = IF ok
                       THEN UpsertFrames(frame_labels,
                                {RowOfLabel(l) : l \in SeqRange(commit.frameLabels)})
                       ELSE frame_labels
    /\ IF ok
       THEN Proceed(Issue("frame_labels.upsert", ok), "success")
       ELSE Fail(Issue("frame_labels.upsert", ok))
    /\ UNCHANGED <<mount, labellerId, isLoadingSourceInfo, load, episodeLabel,
                   panel, frameLabels, isSaving, kb, clear, labellers,
                   episode_labels,
                   gestures, otherVars>>

\* a finally block that leaves isSaving as it is
SavingLeftByFinally == isSaving

\* finally { setIsSaving(false) }
SavingAfterFinally == FALSE

\* the alert is dismissed: finally { setIsSaving(false) }, then the render
DismissAlert ==
    /\ Blocked
    /\ isSaving' = SavingAfterFinally
    /\ commit' = IdleCommit
    /\ kb' = KbAfter(hasUnsavedChanges, FALSE, frameLabels, deletedFrameIndices)
    /\ UNCHANGED <<mount, labellerId, isLoadingSourceInfo, load, episodeLabel,
                   panel, frameLabels, hasUnsavedChanges, deletedFrameIndices,
                   clear, labellers, frame_labels, episode_labels,
                   gestures, otherVars>>

-----------------------------------------------------------------------------
(* handleClearAll / handleClearAllLabels *)

\* Clear all, confirmed: setIsClearing(true), the frame delete is sent
ClearAllStart ==
    /\ UiReady
    /\ Gesture
    /\ clear.pc = "idle"
    /\ clear' = [pc |-> "frames", failed |-> {}]
    /\ UNCHANGED <<mount, labellerId, isLoadingSourceInfo, load, episodeLabel,
                   panel, frameLabels, hasUnsavedChanges, isSaving,
                   deletedFrameIndices, kb, commit, labellers, frame_labels,
                   episode_labels>>

\* response of the frame_labels delete; an error is only logged
ClearFramesResp(ok) ==
    /\ ~Blocked
    /\ clear.pc = "frames"
    /\ frame_labels' = IF ok THEN {} ELSE frame_labels
    /\ clear' = [pc |-> "episode", failed |-> IF ok THEN {} ELSE {"frame_labels.delete"}]
    /\ UNCHANGED <<mount, labellerId, isLoadingSourceInfo, load, episodeLabel,
                   panel, frameLabels, hasUnsavedChanges, isSaving,
                   deletedFrameIndices, kb, commit, labellers, episode_labels,
                   gestures, otherVars>>

\* response of the episode_labels delete; then the local reset of the
\* viewer and of the panel
ClearEpisodeResp(ok) ==
    /\ ~Blocked
    /\ clear.pc = "episode"
    /\ episode_labels' = IF ok THEN {} ELSE episode_labels
    /\ frameLabels' = <<>>
    /\ episodeLabel' = <<>>
    /\ hasUnsavedChanges' = FALSE
    /\ deletedFrameIndices' = {}
    /\ panel' = DefaultPanel
    /\ kb' = KbAfterWith(FALSE, isSaving, <<>>, {}, <<>>)
    /\ clear' = [pc |-> "idle",
                 failed |-> clear.failed \cup (IF ok THEN {} ELSE {"episode_labels.delete"})]
    /\ commit' = NoteInflight("clear")
    /\ UNCHANGED <<mount, labellerId, isLoadingSourceInfo, load, isSaving,
                   labellers, frame_labels,
                   gestures, otherVars>>

-----------------------------------------------------------------------------
(* Specification *)

Next ==
    \/ LabellerIdEffect
    \/ LoadSourceMetadataDone
    \/ \E ok \in BOOLEAN : LoadEpisodeResp(ok)
    \/ \E ok \in BOOLEAN : LoadFramesResp(ok)
    \/ \E f \in FrameIdxs, in \in FrameInputs : OnFrameLabelSave(f, in)
    \/ \E f \in FrameIdxs : OnFrameLabelDelete(f)
    \/ \E tag \in QualityInputs : ToggleQuality(tag)
    \/ \E item \in LitterItems : IncrementLitterItem(item)
    \/ \E item \in LitterItems : DecrementLitterItem(item)
    \/ \E item \in LitterItems, value \in QtyInputs : HandleQtyInput(item, value)
    \/ OnChangeTimer
    \/ SaveAllButton
    \/ CtrlS
    \/ \E ok \in BOOLEAN : CommitLabellersResp(ok)
    \/ \E ok \in BOOLEAN : CommitDeleteResp(ok)
    \/ \E ok \in BOOLEAN : CommitEpisodeResp(ok)
    \/ \E ok \in BOOLEAN : CommitFramesResp(ok)
    \/ DismissAlert
    \/ ClearAllStart
    \/ \E ok \in BOOLEAN : ClearFramesResp(ok)
    \/ \E ok \in BOOLEAN : ClearEpisodeResp(ok)

Spec == Init /\ [][Next]_vars

\* every store call of a save returns, with success or with an error, and
\* alert() returns: the dialog is modal, the page does nothing until it is
\* dismissed
SaveCallsReturn ==
    /\ WF_vars(\E ok \in BOOLEAN : CommitLabellersResp(ok))
    /\ WF_vars(\E ok \in BOOLEAN : CommitDeleteResp(ok))
    /\ WF_vars(\E ok \in BOOLEAN : CommitEpisodeResp(ok))
    /\ WF_vars(\E ok \in BOOLEAN : CommitFramesResp(ok))
    /\ WF_vars(DismissAlert)

-----------------------------------------------------------------------------
(* Functions of the code applied to drawn inputs *)

\* largest quantity of a drawn litter map
MaxFnQty == 2

FnLitterItems == {"oreo_wrapper", "pepsi_bottle"}

\* litter maps a label can carry: a key that is absent, or a key with a
\* quantity, the zero and negative ones included
FnLitterMaps == [FnLitterItems -> (-2)..MaxFnQty]

\* most frame labels in a drawn list
MaxFnFrames == 3

\* issue tags the drawn frame labels carry
FnIssueTags ==
    {"left_arm_missed", "left_arm_litter_dropped", "left_arm_recovery",
     "right_arm_missed"}

\* lists of at most n frame labels, frame i - 1 at place i
FnLabelLists(n) ==
    UNION {{[i \in 1..k |-> FrameLabel(i - 1, CurrentLabeller,
                                [phaseTag |-> ScalarPhase({}), issueTags |-> tags[i],
                                 notes |-> ""])] :
               tags \in [1..k -> SUBSET FnIssueTags]} : k \in 0..n}

\* checkPairedIssueTags applied to a list of frame labels
ApplyCheckPairedIssueTags ==
    /\ fn = NoCall
    /\ \E allLabels \in FnLabelLists(MaxFnFrames) :
         fn' = [op |-> "checkPairedIssueTags", allLabels |-> allLabels,
                warnings |-> checkPairedIssueTags(allLabels)]
    /\ UNCHANGED <<sessionVars, lin>>

\* A string is the sequence of its characters; an optional field is <<>>
\* when undefined and <<value>> when present; a null result is <<>>.

\* sourceRepoId.split("/")
RECURSIVE Split(_)
Split(str) ==
    IF \E i \in 1..Len(str) : str[i] = "/"
    THEN LET i == CHOOSE k \in 1..Len(str) :
                     str[k] = "/" /\ \A j \in 1..(k - 1) : str[j] # "/"
         IN  <<SubSeq(str, 1, i - 1)>> \o Split(SubSeq(str, i + 1, Len(str)))
    ELSE <<str>>

\* the parts put one after the other with nothing between them
JoinWithoutSeparator(parts) ==
    LET RECURSIVE cat(_)
        cat(i) == IF i > Len(parts) THEN <<>> ELSE parts[i] \o cat(i + 1)
    IN  cat(1)

\* datasetParts.join("/")
Join(parts) ==
    LET RECURSIVE cat(_)
        cat(i) == IF i > Len(parts) THEN <<>>
                  ELSE IF i = Len(parts) THEN parts[i]
                  ELSE parts[i] \o <<"/">> \o cat(i + 1)
    IN  cat(1)

\* parseSourceRepoId
parseSourceRepoId(sourceRepoId) ==
    IF sourceRepoId = <<>> THEN <<>>
    ELSE LET parts == Split(sourceRepoId)
         IN  IF Len(parts) < 2 THEN <<>>
             ELSE <<[org |-> Head(parts), dataset |-> Join(Tail(parts))]>>

\* "source_episode_index": null in a line of episodes.jsonl: the field is
\* present (not undefined) and holds no episode index
JsonNull == -1

\* extractSourceInfo; metadataMap is a function on the episode indices it has
extractSourceInfo(episodeIndex, metadataMap) ==
    IF episodeIndex \notin DOMAIN metadataMap THEN <<>>
    ELSE LET metadata == metadataMap[episodeIndex]
         IN  IF \/ metadata.source_repo_id = <<>>
                \/ metadata.source_repo_id[1] = <<>>
                \/ metadata.source_episode_index = <<>>
             THEN <<>>
             ELSE LET parsed == parseSourceRepoId(metadata.source_repo_id[1])
                  IN  IF parsed = <<>> THEN <<>>
                      ELSE <<[org |-> parsed[1].org, dataset |-> parsed[1].dataset,
                              episode |-> metadata.source_episode_index[1]]>>

\* queryOrg, queryDataset, queryEpisode: sourceInfo?.x ?? the viewed x;
\* org and dataset of a sourceInfo are strings, its episode may be null
QueryKey(viewed, sourceInfo) ==
    IF sourceInfo = <<>> THEN viewed
    ELSE [org |-> sourceInfo[1].org, dataset |-> sourceInfo[1].dataset,
          episode |-> IF sourceInfo[1].episode = JsonNull THEN viewed.episode
                      ELSE sourceInfo[1].episode]

\* longest source_repo_id drawn
MaxRepoIdLen == 5

RepoIdChars == {"o", "d", "/"}
RepoIds == UNION {[1..n -> RepoIdChars] : n \in 0..MaxRepoIdLen}

\* the episode viewed, of the dataset viewed
Viewed == [org |-> <<"v">>, dataset |-> <<"w">>, episode |-> 3]

\* lineage entries of the viewed episode
FnEntries ==
    {[episode_index |-> <<Viewed.episode>>, source_repo_id |-> r, source_episode_index |-> e] :
        r \in {<<>>} \cup {<<x>> : x \in RepoIds},
        e \in {<<>>, <<JsonNull>>, <<0>>, <<9>>}}

\* extractSourceInfo applied to a metadata map with or without an entry of
\* the viewed episode, and the storage key the viewer derives from it
ApplyExtractSourceInfo ==
    /\ fn = NoCall
    /\ \E metadataMap \in {<<>>} \cup {[i \in {Viewed.episode} |-> m] : m \in FnEntries} :
         LET info == extractSourceInfo(Viewed.episode, metadataMap)
         IN  fn' = [op |-> "extractSourceInfo", metadataMap |-> metadataMap,
                    sourceInfo |-> info, queryKey |-> QueryKey(Viewed, info)]
    /\ UNCHANGED <<sessionVars, lin>>

\* A line of episodes.jsonl is what JSON.parse makes of it: "blank" is empty
\* after trim, "unparsable" makes JSON.parse throw, "null" parses to null,
\* "object" parses to an object with the fields given.
JsonlLine(kind, episode_index, source_episode_index) ==
    [kind |-> kind, episode_index |-> episode_index,
     source_repo_id |-> <<>>, source_episode_index |-> source_episode_index]

\* parseJsonlLine
parseJsonlLine(line) ==
    IF line.kind = "blank" THEN <<>>
    ELSE IF line.kind = "unparsable" THEN <<>>
    ELSE IF line.kind = "null" THEN <<>>
    ELSE <<[episode_index |-> line.episode_index,
            source_repo_id |-> line.source_repo_id,
            source_episode_index |-> line.source_episode_index]>>

\* map.set(metadata.episode_index, metadata)
MapSet(map, key, value) ==
    [k \in DOMAIN map \cup {key} |-> IF k = key THEN value ELSE map[k]]

\* the loop of parseEpisodesJsonl over the first n lines
RECURSIVE ParsedUpTo(_, _)
ParsedUpTo(lines, n) ==
    IF n = 0 THEN <<>>
    ELSE LET map == ParsedUpTo(lines, n - 1)
             metadata == parseJsonlLine(lines[n])
         IN  IF metadata # <<>> /\ metadata[1].episode_index # <<>>
             THEN MapSet(map, metadata[1].episode_index[1], metadata[1])
             ELSE map

\* a parse that gives up at the first line it cannot use
parseEpisodesJsonlUntilMalformed(lines) ==
    LET bad == {i \in 1..Len(lines) :
                   \/ parseJsonlLine(lines[i]) = <<>>
                   \/ parseJsonlLine(lines[i])[1].episode_index = <<>>}
        n == IF bad = {} THEN Len(lines)
             ELSE (CHOOSE i \in bad : \A j \in bad : i <= j) - 1
    IN  ParsedUpTo(lines, n)

\* parseEpisodesJsonl; lines is jsonlText.split("\n")
parseEpisodesJsonl(lines) == ParsedUpTo(lines, Len(lines))

\* most lines of a document drawn
MaxLines == 3

FnLines ==
    {JsonlLine(k, <<>>, <<>>) : k \in {"blank", "unparsable", "null"}}
        \cup {JsonlLine("object", e, s) : e \in {<<>>, <<0>>, <<1>>},
                                          s \in {<<>>, <<7>>, <<8>>}}

FnDocuments == UNION {[1..n -> FnLines] : n \in 0..MaxLines}

\* parseEpisodesJsonl applied to a document
ApplyParseEpisodesJsonl ==
    /\ fn = NoCall
    /\ \E lines \in FnDocuments :
         fn' = [op |-> "parseEpisodesJsonl", lines |-> lines,
                episodesMap |-> parseEpisodesJsonl(lines)]
    /\ UNCHANGED <<sessionVars, lin>>

\* episodeData of handleSaveAllLabels built for a label
ApplyEpisodeData ==
    /\ fn = NoCall
    /\ \E q \in {NULL} \cup QualityInputs, items \in FnLitterMaps :
         LET label == [labellerId |-> CurrentLabeller, qualityTag |-> q,
                       litterItems |-> items]
         IN  fn' = [op |-> "episodeData", labelToSave |-> label,
                    episodeData |-> EpisodeData(label, CurrentLabeller)]
    /\ UNCHANGED <<sessionVars, lin>>

\* frame drafts a cache can hold: at most one per frame, in either order
FnDrafts ==
    {<<>>} \cup {<<FrameLabel(f, CurrentLabeller, InputA)>> : f \in FrameIdxs}
           \cup {<<FrameLabel(f, CurrentLabeller, InputA),
                    FrameLabel(g, CurrentLabeller, InputB)>> :
                      <<f, g>> \in {p \in FrameIdxs \X FrameIdxs : p[1] # p[2]}}

\* onFrameLabelDelete applied once, and once more, to a cache; rowIdxs are
\* the frames that have a committed record
ApplyOnFrameLabelDelete ==
    /\ fn = NoCall
    /\ \E drafts \in FnDrafts, deleted \in SUBSET FrameIdxs,
          rowIdxs \in SUBSET FrameIdxs, f \in FrameIdxs :
         fn' = [op |-> "onFrameLabelDelete", deleteIdx |-> f, rowIdxs |-> rowIdxs,
                drafts0 |-> drafts, deleted0 |-> deleted,
                drafts1 |-> FilterOutFrame(drafts, f),
                deleted1 |-> AddDeleted(deleted, f),
                dirty1 |-> DirtyAfterEdit,
                drafts2 |-> FilterOutFrame(FilterOutFrame(drafts, f), f),
                deleted2 |-> AddDeleted(AddDeleted(deleted, f), f),
                dirty2 |-> DirtyAfterEdit]
    /\ UNCHANGED <<sessionVars, lin>>

NextFn ==
    \/ ApplyEpisodeData
    \/ ApplyOnFrameLabelDelete
    \/ ApplyCheckPairedIssueTags
    \/ ApplyExtractSourceInfo
    \/ ApplyParseEpisodesJsonl

\* one session, not started, with an empty store
InitFn == Init /\ frame_labels = {} /\ episode_labels = {}

SpecFn == InitFn /\ [][NextFn]_vars

-----------------------------------------------------------------------------
(* Save, failure and retry on an unchanged cache *)

\* frame drafts of a dirty cache
RetryDrafts ==
    {<<>>}
    \cup {<<FrameLabel(f, CurrentLabeller, in)>> : f \in FrameIdxs, in \in FrameInputs}
    \cup {<<FrameLabel(0, CurrentLabeller, in0), FrameLabel(1, CurrentLabeller, in1)>> :
              in0 \in FrameInputs, in1 \in FrameInputs}

\* episode panels of a dirty cache
RetryPanels ==
    {DefaultPanel} \cup {[DefaultPanel EXCEPT !.qualityTag = q] : q \in QualityInputs}

\* what handleSaveAllLabels writes when every request succeeds, from the
\* store st and the cache c, in the order of the code
FullCommit(st, c, who) ==
    LET deleted == IF c.deletedFrameIndices # {}
                   THEN DeleteFrames(st.frame_labels, who, c.deletedFrameIndices)
                   ELSE st.frame_labels
        label == [labellerId |-> who, qualityTag |-> c.panel.qualityTag,
                  litterItems |-> c.panel.litterItems]
    IN  [labellers |-> st.labellers \cup {who},
         episode_labels |-> UpsertEpisode(st.episode_labels, EpisodeData(label, who)),
         frame_labels |-> IF Len(c.frameLabels) > 0
                          THEN UpsertFrames(deleted,
                                   {RowOfLabel(l) : l \in SeqRange(c.frameLabels)})
                          ELSE deleted]

\* the store as one value
StoreNow ==
    [labellers |-> labellers, episode_labels |-> episode_labels,
     frame_labels |-> frame_labels]

\* a loaded session with a dirty cache; fn remembers the store and the cache
InitRetry ==
    /\ mount = "ready"
    /\ labellerId = CurrentLabeller
    /\ isLoadingSourceInfo = FALSE
    /\ load = [pc |-> "done"]
    /\ episodeLabel = <<>>
    /\ panel \in RetryPanels
    /\ frameLabels \in RetryDrafts
    /\ deletedFrameIndices \in SUBSET FrameIdxs
    /\ hasUnsavedChanges = TRUE
    /\ isSaving = FALSE
    /\ kb = [frameLabels |-> frameLabels, deletedFrameIndices |-> deletedFrameIndices,
             pairingWarnings |-> pairingWarnings]
    /\ commit = IdleCommit
    /\ clear = NoClear
    /\ labellers = {}
    /\ frame_labels \in InitFrameTables
    /\ episode_labels \in InitEpisodeTables
    /\ gestures = 0
    /\ fn = [op |-> "retry", store0 |-> StoreNow, cache0 |-> CacheNow]
    /\ lin = LineageAtMount

\* after a successful save the user presses Save on a frame whose fields
\* are those of its draft: the cache is dirty again, its content the same
ResaveFrameLabel(f, in) ==
    /\ ~hasUnsavedChanges
    /\ OnFrameLabelSave(f, in)
    /\ frameLabels' = frameLabels

NextRetry ==
    \/ SaveAllButton
    \/ CtrlS
    \/ \E ok \in BOOLEAN : CommitLabellersResp(ok)
    \/ \E ok \in BOOLEAN : CommitDeleteResp(ok)
    \/ \E ok \in BOOLEAN : CommitEpisodeResp(ok)
    \/ \E ok \in BOOLEAN : CommitFramesResp(ok)
    \/ DismissAlert
    \/ \E f \in FrameIdxs, in \in FrameInputs : ResaveFrameLabel(f, in)

SpecRetry == InitRetry /\ [][NextRetry]_vars

\* saves and retried saves whose store calls all return
SpecLive == SpecRetry /\ SaveCallsReturn

-----------------------------------------------------------------------------
(* Lineage resolution while the viewed identity changes *)

\* requests to change the viewed (org, dataset, episode) in one session
MaxNavigations == 2

\* the viewed identity: effectiveOrg, effectiveDataset, episodeId
ViewedKey(dataset, episodeId) ==
    [org |-> <<"v">>, dataset |-> <<dataset>>, episode |-> episodeId]

\* a line of episodes.jsonl with lineage fields
LineageLine(episode_index, source_repo_id, source_episode_index) ==
    [kind |-> "object", episode_index |-> <<episode_index>>,
     source_repo_id |-> <<source_repo_id>>,
     source_episode_index |-> <<source_episode_index>>]

\* meta/episodes.jsonl of each dataset, split into lines
EpisodesJsonl(dataset) ==
    IF dataset = "a"
    THEN <<LineageLine(0, <<"o", "/", "d">>, 7),
           JsonlLine("unparsable", <<>>, <<>>),
           JsonlLine("object", <<1>>, <<>>)>>
    ELSE <<LineageLine(0, <<"o", "/", "d">>, 8),
           LineageLine(1, <<"o", "/", "d">>, 9)>>

\* the sourceInfo effect: null without a cached map, else extractSourceInfo
SourceInfoEffect(episodeId, episodesMetadataMap) ==
    IF episodesMetadataMap = <<>> THEN <<>>
    ELSE extractSourceInfo(episodeId, episodesMetadataMap[1])

\* a dependency of an effect changed: setSourceInfo with an object is always
\* a new object
SourceInfoChanged(old, new) == new # <<>> \/ old # new

\* the loadLabels effect in a render with these values: the label selects it
\* issues, with the storage key they use
LoadLabelsEffect(depsChanged, loading, dataset, episodeId, sourceInfo, resolution) ==
    IF depsChanged /\ LoadEffectRuns(labellerId, loading)
    THEN {[op |-> "load",
           key |-> QueryKey(ViewedKey(dataset, episodeId), sourceInfo),
           viewed |-> ViewedKey(dataset, episodeId),
           resolution |-> resolution]}
    ELSE {}

\* the runs of loadLabels started by the effects of a step, each awaiting
\* its episode select
LoadsStarted(issued) == {[key |-> i.key, pc |-> "ep"] : i \in issued}

\* the loadSourceMetadata effect also depends on episodeId
FetchDepsWithEpisode(dataset, episodeId) ==
    dataset # lin.dataset \/ episodeId # lin.episodeId

\* the dependencies of the loadSourceMetadata effect changed:
\* [effectiveOrg, effectiveDataset]
FetchDepsChanged(dataset, episodeId) == dataset # lin.dataset

\* what lineage actions leave alone
lineageFrame == <<mount, labellerId, load, episodeLabel, panel, frameLabels,
                  hasUnsavedChanges, isSaving, deletedFrameIndices, kb, commit,
                  clear, labellers, frame_labels, episode_labels, gestures, fn>>

\* the viewer is rendered with another dataset or episode: the effects of
\* that render run with the state of before, then those of the render their
\* state updates cause
NavigateBy(dataset, episodeId, switch) ==
    /\ mount = "ready"
    /\ ~Blocked
    /\ lin.navigations < MaxNavigations
    /\ <<dataset, episodeId>> # <<lin.dataset, lin.episodeId>>
    /\ LET refetch == FetchDepsChanged(dataset, episodeId)
           episodeChanged == episodeId # lin.episodeId
           info == IF episodeChanged
                   THEN SourceInfoEffect(episodeId, lin.episodesMetadataMap)
                   ELSE lin.sourceInfo
           loading == IF refetch THEN TRUE ELSE isLoadingSourceInfo
           resolution == IF refetch THEN "pending" ELSE lin.resolution
           first == LoadLabelsEffect(TRUE, isLoadingSourceInfo, dataset, episodeId,
                                     lin.sourceInfo, resolution)
           second == LoadLabelsEffect(
                        \/ loading # isLoadingSourceInfo
                        \/ episodeChanged /\ SourceInfoChanged(lin.sourceInfo, info),
                        loading, dataset, episodeId, info, resolution)
       IN  /\ isLoadingSourceInfo' = loading
           /\ lin' = [lin EXCEPT
                        !.dataset = dataset,
                        !.episodeId = episodeId,
                        !.sourceInfo = info,
                        !.runs = IF refetch
                                 THEN @ \cup {Run(lin.started + 1, dataset, episodeId, "version")}
                                 ELSE @,
                        !.started = IF refetch THEN @ + 1 ELSE @,
                        !.resolution = resolution,
                        !.issued = first \cup second,
                        !.loads = @ \cup LoadsStarted(first \cup second),
                        !.navigations = @ + 1,
                        !.switch = switch]
    /\ UNCHANGED lineageFrame

\* the viewer is opened on another dataset
Navigate(dataset, episodeId) ==
    /\ dataset # lin.dataset
    /\ NavigateBy(dataset, episodeId, lin.switch)

\* a switch of episode that never asks
SwitchNeverAsks(dirty) == FALSE

\* if (hasUnsavedChanges) { const confirmed = window.confirm(...) }
SwitchAsks(dirty) == dirty

\* a request to switch episode: what was asked, and the answer
SwitchRequest(via, target, asked, confirmed) ==
    [via |-> via, target |-> target, dirty |-> hasUnsavedChanges,
     asked |-> asked, confirmed |-> asked /\ confirmed]

\* the request ends without navigation
StayOnEpisode(request) ==
    /\ mount = "ready"
    /\ ~Blocked
    /\ lin.navigations < MaxNavigations
    /\ lin' = [lin EXCEPT !.switch = request, !.navigations = @ + 1]
    /\ UNCHANGED <<isLoadingSourceInfo, lineageFrame>>

\* handleKeyDown on ArrowDown / ArrowUp, with the answer to its confirm
ArrowKey(key, confirmed) ==
    LET lowestEpisodeId == CHOOSE e \in Episodes : \A x \in Episodes : e <= x
        highestEpisodeId == CHOOSE e \in Episodes : \A x \in Episodes : e >= x
        nextEpisodeId ==
            IF lin.episodeId < lowestEpisodeId THEN lowestEpisodeId
            ELSE IF lin.episodeId > highestEpisodeId THEN highestEpisodeId
            ELSE IF key = "ArrowDown" THEN lin.episodeId + 1 ELSE lin.episodeId - 1
        asked == SwitchAsks(hasUnsavedChanges)
        request == SwitchRequest("arrow", nextEpisodeId, asked, confirmed)
    IN  /\ nextEpisodeId >= lowestEpisodeId
        /\ nextEpisodeId <= highestEpisodeId
        /\ IF asked /\ ~confirmed
           THEN StayOnEpisode(request)
           ELSE NavigateBy(lin.dataset, nextEpisodeId, request)

\* handleEpisodeClick of the sidebar, then the Link's navigation unless
\* the click was prevented
EpisodeLinkClick(targetEpisode, confirmed) ==
    LET asked == SwitchAsks(hasUnsavedChanges) /\ targetEpisode # lin.episodeId
        request == SwitchRequest("link", targetEpisode, asked, confirmed)
    IN  IF (asked /\ ~confirmed) \/ targetEpisode = lin.episodeId
        THEN StayOnEpisode(request)
        ELSE NavigateBy(lin.dataset, targetEpisode, request)

\* getDatasetVersion returns a supported version: fetchEpisodesJsonl is called
VersionSupported(run) ==
    /\ ~Blocked
    /\ run \in lin.runs
    /\ run.pc = "version"
    /\ lin' = [lin EXCEPT !.runs = (@ \ {run}) \cup {[run EXCEPT !.pc = "fetch"]},
                          !.issued = {}]
    /\ UNCHANGED <<isLoadingSourceInfo, lineageFrame>>

\* catch and finally of loadSourceMetadata, then the effects of the render
RunFails(run) ==
    /\ ~Blocked
    /\ run \in lin.runs
    /\ LET resolution == IF run.id = lin.started THEN "failed" ELSE lin.resolution
           issued == LoadLabelsEffect(
                         isLoadingSourceInfo \/ lin.sourceInfo # <<>>,
                         FALSE, lin.dataset, lin.episodeId, <<>>, resolution)
       IN  lin' = [lin EXCEPT
                     !.runs = @ \ {run},
                     !.episodesMetadataMap = <<>>,
                     !.sourceInfo = <<>>,
                     !.resolution = resolution,
                     !.issued = issued,
                     !.loads = @ \cup LoadsStarted(issued)]
    /\ isLoadingSourceInfo' = FALSE
    /\ UNCHANGED lineageFrame

\* getDatasetVersion throws: the version is not one of v3.0, v2.1, v2.0, or
\* info.json could not be read
VersionUnsupported(run) == run.pc = "version" /\ RunFails(run)

\* fetchEpisodesJsonl throws: the response is not ok, or the request timed out
FetchFails(run) == run.pc = "fetch" /\ RunFails(run)

\* fetchEpisodesJsonl returns the document: it is parsed and cached,
\* sourceInfo is set for the episode of the run, then the sourceInfo effect
\* sets it for the episode viewed; loadLabels runs after each
FetchSucceeds(run) ==
    /\ ~Blocked
    /\ run \in lin.runs
    /\ run.pc = "fetch"
    /\ LET metadataMap == parseEpisodesJsonl(EpisodesJsonl(run.dataset))
           sourceData == extractSourceInfo(run.episodeId, metadataMap)
           info == SourceInfoEffect(lin.episodeId, <<metadataMap>>)
           resolution == IF run.id = lin.started THEN "resolved" ELSE lin.resolution
           first == LoadLabelsEffect(
                        isLoadingSourceInfo \/ SourceInfoChanged(lin.sourceInfo, sourceData),
                        FALSE, lin.dataset, lin.episodeId, sourceData, resolution)
           second == LoadLabelsEffect(SourceInfoChanged(sourceData, info),
                        FALSE, lin.dataset, lin.episodeId, info, resolution)
       IN  lin' = [lin EXCEPT
                     !.runs = @ \ {run},
                     !.episodesMetadataMap = <<metadataMap>>,
                     !.sourceInfo = info,
                     !.resolution = resolution,
                     !.issued = first \cup second,
                     !.loads = @ \cup LoadsStarted(first \cup second)]
    /\ isLoadingSourceInfo' = FALSE
    /\ UNCHANGED lineageFrame

\* the episode select of a run of loadLabels is answered:
\* setEpisodeLabel with what is stored under the key of the run
LoadEpisodeAnswer(l) ==
    /\ ~Blocked
    /\ l \in lin.loads
    /\ l.pc = "ep"
    /\ lin' = [lin EXCEPT !.loads = (@ \ {l}) \cup {[l EXCEPT !.pc = "fr"]},
                          !.shown.episode = <<l.key>>,
                          !.issued = {}]
    /\ UNCHANGED <<isLoadingSourceInfo, lineageFrame>>

\* the frame select of a run of loadLabels is answered: setFrameLabels
\* with what is stored under the key of the run; the store is empty, so
\* are the drafts
LoadFramesAnswer(l) ==
    /\ ~Blocked
    /\ l \in lin.loads
    /\ l.pc = "fr"
    /\ lin' = [lin EXCEPT !.loads = @ \ {l},
                          !.shown.frames = <<l.key>>,
                          !.issued = {}]
    /\ UNCHANGED <<isLoadingSourceInfo, lineageFrame>>

\* the storage key handleSaveAllLabels uses when Save All is pressed
SaveKey == QueryKey(ViewedKey(lin.dataset, lin.episodeId), lin.sourceInfo)

NextLineage ==
    \/ \E dataset \in Datasets, episodeId \in Episodes : Navigate(dataset, episodeId)
    \/ \E key \in {"ArrowDown", "ArrowUp"}, confirmed \in BOOLEAN : ArrowKey(key, confirmed)
    \/ \E targetEpisode \in Episodes, confirmed \in BOOLEAN :
            EpisodeLinkClick(targetEpisode, confirmed)
    \/ \E run \in lin.runs : VersionSupported(run)
    \/ \E run \in lin.runs : VersionUnsupported(run)
    \/ \E run \in lin.runs : FetchFails(run)
    \/ \E run \in lin.runs : FetchSucceeds(run)
    \/ OnFrameLabelSave(0, InputA)
    \/ OnFrameLabelDelete(0)
    \/ \E tag \in QualityInputs : ToggleQuality(tag)
    \/ SaveAllButton
    \/ CommitLabellersResp(TRUE)
    \/ CommitDeleteResp(TRUE)
    \/ CommitEpisodeResp(TRUE)
    \/ CommitFramesResp(TRUE)
    \/ DismissAlert

\* the viewer rendered for a known labeller, with an empty store
InitLineage ==
    /\ mount = "ready"
    /\ labellerId = CurrentLabeller
    /\ isLoadingSourceInfo = TRUE
    /\ load = [pc |-> "idle"]
    /\ episodeLabel = <<>>
    /\ panel = DefaultPanel
    /\ frameLabels = <<>>
    /\ hasUnsavedChanges = FALSE
    /\ isSaving = FALSE
    /\ deletedFrameIndices = {}
    /\ kb = [frameLabels |-> <<>>, deletedFrameIndices |-> {},
             pairingWarnings |-> <<>>]
    /\ commit = IdleCommit
    /\ clear = NoClear
    /\ labellers = {}
    /\ frame_labels = {}
    /\ episode_labels = {}
    /\ gestures = 0
    /\ fn = NoCall
    /\ lin = LineageAtMount

SpecLineage == InitLineage /\ [][NextLineage]_vars

\* the viewer is pointed at datasets and episodes while lineage resolutions
\* and label loads are answered in any order; no label is edited
NextLoads ==
    \/ \E dataset \in Datasets, episodeId \in Episodes : Navigate(dataset, episodeId)
    \/ \E key \in {"ArrowDown", "ArrowUp"} : ArrowKey(key, TRUE)
    \/ \E targetEpisode \in Episodes : EpisodeLinkClick(targetEpisode, TRUE)
    \/ \E run \in lin.runs : VersionSupported(run)
    \/ \E run \in lin.runs : VersionUnsupported(run)
    \/ \E run \in lin.runs : FetchFails(run)
    \/ \E run \in lin.runs : FetchSucceeds(run)
    \/ \E l \in lin.loads : LoadEpisodeAnswer(l)
    \/ \E l \in lin.loads : LoadFramesAnswer(l)

SpecLoads == InitLineage /\ [][NextLoads]_vars

-----------------------------------------------------------------------------
(* Properties *)

\* a frame edit or frame delete ran while the save was in flight
EditedInFlight == commit.inflight \cap {"edit", "delete"} # {}

\* the requests of the save that were answered
IssuedOps == [i \in 1..Len(commit.issued) |-> commit.issued[i].op]

\* position of a request in the fixed order of the protocol
StepRank(op) ==
    CASE op = "labellers.upsert" -> 1
      [] op = "frame_labels.delete" -> 2
      [] op = "episode_labels.upsert" -> 3
      [] op = "frame_labels.upsert" -> 4

\* the save reached its success branch and every request of it succeeded
CommitSucceeded ==
    /\ commit.pc = "alert_ok"
    /\ \A i \in 1..Len(commit.issued) : commit.issued[i].ok

\* C1: a frame edit or frame delete made while a save is in flight leaves
\* the dirty flag true after that save succeeded.
C1_EditInFlightStaysDirty ==
    (CommitSucceeded /\ load.pc = "done" /\ EditedInFlight) => hasUnsavedChanges

\* the save enters its catch block in this step
CommitFailsStep == commit.pc \in InFlightPcs /\ commit'.pc = "alert_failed"

C3_StepsInOrderAndStopAtFailure ==
    /\ \A i, j \in 1..Len(commit.issued) :
         i < j => StepRank(IssuedOps[i]) < StepRank(IssuedOps[j])
    /\ \A i \in 1..Len(commit.issued) :
         ~commit.issued[i].ok => (i = Len(commit.issued) /\ commit.pc \notin InFlightPcs)

\* C4: when the labellers upsert fails the save aborts: nothing is sent to
\* frame_labels or episode_labels and the save ends in failure, the cache
\* still dirty.
C4_LabellerFailureAborts ==
    (Len(commit.issued) >= 1 /\ ~commit.issued[1].ok
        /\ commit.issued[1].op = "labellers.upsert")
        => (commit.pc = "alert_failed" /\ Len(commit.issued) = 1 /\ hasUnsavedChanges)

\* C5: after a successful save the store holds no frame row for a
\* frameIndex that was pending deletion and has no draft, whoever wrote the
\* row; with an empty pending-deletion set no delete is sent.
C5_DeletedFramesGone ==
    /\ (CommitSucceeded /\ load.pc = "done") =>
         \A f \in commit.deletedFrameIndices \ DraftIdxs(commit.frameLabels) :
            \A r \in frame_labels : r.frame_idx # f
    /\ commit.deletedFrameIndices = {} =>
         \A i \in 1..Len(commit.issued) : IssuedOps[i] # "frame_labels.delete"

\* C6: the pending-deletion set and the frame indices that have a draft
\* are disjoint in every reachable state.
C6_DeletedAndDraftsDisjoint ==
    deletedFrameIndices \cap DraftIdxs(frameLabels) = {}

\* C7: a frame that was deleted and then edited again is, after a
\* successful save, in the store with the edited content: for every frame
\* that had a draft and was pending deletion when the save was invoked
\* (nothing else touching the cache meanwhile), the one row of its
\* frameIndex is the row of the draft.
C7_UndeletedFrameIsUpserted ==
    (CommitSucceeded /\ commit.inflight = {}) =>
        \A i \in 1..Len(commit.cache0.frameLabels) :
            LET draft == commit.cache0.frameLabels[i]
            IN  draft.frameIdx \in commit.cache0.deletedFrameIndices =>
                    /\ RowOfLabel(draft) \in frame_labels
                    /\ \A r \in frame_labels :
                          r.frame_idx = draft.frameIdx => r = RowOfLabel(draft)

\* a reset of the cache completes in this step: the load, a successful
\* save, or clear-all
ResetStep ==
    \/ load.pc = "fr" /\ load'.pc = "done"
    \/ commit.pc \in InFlightPcs /\ commit'.pc = "alert_ok"
    \/ clear.pc = "episode" /\ clear'.pc = "idle"

\* a frame edit or a frame delete is performed in this step
FrameEditStep ==
    \/ \E f \in FrameIdxs, in \in FrameInputs : OnFrameLabelSave(f, in)
    \/ \E f \in FrameIdxs : OnFrameLabelDelete(f)

\* C8: the dirty flag is true after every frame edit and frame delete, and
\* it goes from true to false only in a reset (load completion, successful
\* save, clear-all).
C8_DirtyOnlyClearedByReset ==
    [][/\ FrameEditStep => hasUnsavedChanges'
       /\ (hasUnsavedChanges /\ ~hasUnsavedChanges') => ResetStep]_vars

C8_Witness ==
    /\ hasUnsavedChanges
    /\ gestures >= 2
    /\ deletedFrameIndices # {}
    /\ Len(frameLabels) > 0
    /\ commit.pc = "alert_failed"

\* every row of the store and every draft was written by this labeller
SingleLabellerRun ==
    /\ \A r \in frame_labels \cup episode_labels : r.labeller_id = labellerId
    /\ \A i \in 1..Len(frameLabels) : frameLabels[i].labellerId = labellerId

\* Clean of the session state machine: loaded, not dirty, nothing in flight
Clean ==
    /\ mount = "ready"
    /\ load.pc = "done"
    /\ commit.pc = "idle"
    /\ clear.pc = "idle"
    /\ ~hasUnsavedChanges

\* a row as a load shows it, and a draft in the same form
ShownRow(r) == LabelOfRow(r)
ShownDraft(l) == [l EXCEPT !.phaseTag = LoadPhase(@)]

\* the cache holds no change that the store lacks: every frame draft is a
\* row of the store, what the episode panel holds is the store's episode
\* row, and no deletion is pending
NothingUnsaved ==
    /\ \A i \in 1..Len(frameLabels) :
          \E r \in frame_labels : ShownRow(r) = ShownDraft(frameLabels[i])
    /\ \/ PanelIsEmpty
       \/ \E r \in episode_labels : panel = PanelOfLabel(EpisodeLabelOfRow(r))
    /\ deletedFrameIndices = {}

\* C9: in a single-labeller run, whenever the session is clean (not dirty,
\* loaded, no save or clear-all in flight) the cache holds no change that
\* the store lacks.
C9_CleanMeansNothingUnsaved ==
    (Clean /\ SingleLabellerRun) => NothingUnsaved

\* C10: every frame draft in the cache when a save is invoked (button or
\* Ctrl+S) is among the frame labels that save upserts.
C10_SaveSendsEveryDraft ==
    (commit.pc = "labellers" /\ commit.inflight = {} /\ load.pc = "done")
        => SeqRange(frameLabels) \subseteq SeqRange(commit.frameLabels)

\* an episode draft exists in the cache the save was invoked on: the viewer
\* holds an episode label or the panel holds a field value
EpisodeDraftExists(cache) ==
    cache.episodeLabel # <<>> \/ cache.panel # DefaultPanel

\* C11: a save writes an episode row only if an episode draft exists: a
\* step that gives the store its first episode row belongs to a save that
\* was invoked on a cache with an episode draft.
C11_EpisodeRowOnlyFromDraft ==
    [][(load.pc = "done" /\ episode_labels = {} /\ episode_labels' # {})
          => EpisodeDraftExists(commit.cache0)]_vars

\* C12: the quantity map the episode upsert writes holds the entries of
\* the draft with quantity > 0 and no other entry, and it is null (not an
\* empty map) when the draft has no entry with quantity > 0.
C12_LitterItemsPositiveOrNull ==
    fn.op = "episodeData" =>
        LET items == fn.labelToSave.litterItems
            written == fn.episodeData.litter_items
        IN  IF \E i \in DOMAIN items : items[i] > 0
            THEN /\ Len(written) = 1
                 /\ \A i \in DOMAIN items :
                       written[1][i] = IF items[i] > 0 THEN items[i] ELSE Absent
            ELSE written = <<>>

C12_Witness ==
    /\ fn.op = "episodeData"
    /\ \E i \in FnLitterItems : fn.labelToSave.litterItems[i] = 0
    /\ \A i \in FnLitterItems : fn.labelToSave.litterItems[i] <= 0
    /\ fn.episodeData.litter_items = <<>>

\* C13: the save is idempotent under retry: whenever a save in which every
\* request succeeded ends, invoked on the frame drafts and episode fields
\* the session started with (after any number of failed attempts at any
\* step, or after an earlier successful save), the store equals what one
\* save of that cache succeeding at every step writes to the initial store.
C13_CommitIdempotentUnderRetry ==
    (/\ fn.op = "retry"
     /\ CommitSucceeded
     /\ commit.cache0.frameLabels = fn.cache0.frameLabels
     /\ commit.cache0.panel = fn.cache0.panel)
        => StoreNow = FullCommit(fn.store0, fn.cache0, labellerId)

C13_Witness ==
    /\ fn.op = "retry"
    /\ CommitSucceeded
    /\ gestures = 2
    /\ fn.cache0.deletedFrameIndices # {}
    /\ Len(fn.cache0.frameLabels) > 0
    /\ StoreNow = FullCommit(fn.store0, fn.cache0, labellerId)
    /\ StoreNow.frame_labels # fn.store0.frame_labels

\* occurrences of the issue tags of a recovery group in a list of frame
\* labels: the pairs (frame, issue tag of the group on that frame)
IssueOccurrences(allLabels, recoveryTag) ==
    {<<i, t>> \in (1..Len(allLabels)) \X SeqRange(RecoveryGroup(recoveryTag)) :
        t \in allLabels[i].issueTags}

\* C14: checkPairedIssueTags returns a warning for a recovery group exactly
\* when the summed issue-tag count of the group is nonzero and differs from
\* the number of frames carrying the recovery tag, at most one per group,
\* and the warning carries those two counts.
C14_WarningIffMismatchAndIssues ==
    fn.op = "checkPairedIssueTags" =>
        \A r \in SeqRange(RecoveryTags) :
            LET issues == Cardinality(IssueOccurrences(fn.allLabels, r))
                recoveries == Cardinality({i \in 1..Len(fn.allLabels) : r \in fn.allLabels[i].issueTags})
                ws == {i \in 1..Len(fn.warnings) : fn.warnings[i].recoveryTag = r}
            IN  /\ Cardinality(ws) <= 1
                /\ (ws # {}) <=> (issues # 0 /\ issues # recoveries)
                /\ \A i \in ws : /\ fn.warnings[i].totalIssueFrames = issues
                                  /\ fn.warnings[i].recoveryCount = recoveries

C14_Witness ==
    /\ fn.op = "checkPairedIssueTags"
    /\ Len(fn.allLabels) = 3
    /\ fn.allLabels[1].issueTags = {"left_arm_missed"}
    /\ fn.allLabels[2].issueTags = {"left_arm_missed"}
    /\ fn.allLabels[3].issueTags = {"left_arm_recovery"}
    /\ fn.warnings = << [issueList |-> <<"left_arm_missed">>, totalIssueFrames |-> 2,
                    recoveryTag |-> "left_arm_recovery", recoveryCount |-> 1] >>

\* C15: the pairing warnings shown are those of the last committed frame
\* set: they change only in a step that completes a load, a successful
\* save or clear-all, never in a frame edit or frame delete.
C15_WarningsChangeOnlyOnCommitOrLoad ==
    [][(load.pc = "done" /\ pairingWarnings' # pairingWarnings) => ResetStep]_vars

\* the lineage entry of the viewed episode in the map given, <<>> if none
FnEntry ==
    IF Viewed.episode \in DOMAIN fn.metadataMap
    THEN <<fn.metadataMap[Viewed.episode]>> ELSE <<>>

\* a string has at least two '/'-separated segments
HasTwoSegments(str) == \E i \in 1..Len(str) : str[i] = "/"

\* the place of the first '/' of a string that has one
FirstSlash(str) ==
    CHOOSE i \in 1..Len(str) : str[i] = "/" /\ \A j \in 1..(i - 1) : str[j] # "/"

C17_DerivedIffNonEmptyOrgAndDataset ==
    fn.op = "extractSourceInfo" =>
        LET derived ==
                /\ FnEntry # <<>>
                /\ FnEntry[1].source_repo_id # <<>>
                /\ FnEntry[1].source_episode_index # <<>>
                /\ HasTwoSegments(FnEntry[1].source_repo_id[1])
                /\ FirstSlash(FnEntry[1].source_repo_id[1]) > 1
                /\ FirstSlash(FnEntry[1].source_repo_id[1]) < Len(FnEntry[1].source_repo_id[1])
        IN  /\ (fn.sourceInfo # <<>>) <=> derived
            /\ ~derived => fn.queryKey = Viewed

\* a line that parses to an object carrying episode_index
WellFormed(line) == line.kind = "object" /\ line.episode_index # <<>>

\* C18: a malformed line (unparsable, blank, or lacking episode_index) is
\* skipped on its own: every well-formed line of the document, before or
\* after a malformed one, has its entry in the map (the last line of an
\* episode_index gives the entry), and malformed lines add none.
C18_MalformedLineSkippedAlone ==
    fn.op = "parseEpisodesJsonl" =>
        LET good == {i \in 1..Len(fn.lines) : WellFormed(fn.lines[i])} IN
        /\ DOMAIN fn.episodesMap = {fn.lines[i].episode_index[1] : i \in good}
        /\ \A i \in good :
              (\A j \in good : j > i =>
                    fn.lines[j].episode_index # fn.lines[i].episode_index)
                => /\ fn.episodesMap[fn.lines[i].episode_index[1]].source_episode_index
                        = fn.lines[i].source_episode_index
                   /\ fn.episodesMap[fn.lines[i].episode_index[1]].episode_index
                        = fn.lines[i].episode_index

C18_Witness ==
    /\ fn.op = "parseEpisodesJsonl"
    /\ Len(fn.lines) = 3
    /\ WellFormed(fn.lines[1])
    /\ fn.lines[2].kind = "unparsable"
    /\ WellFormed(fn.lines[3])
    /\ fn.lines[1].episode_index = <<0>>
    /\ fn.lines[3].episode_index = <<1>>
    /\ DOMAIN fn.episodesMap = {0, 1}

\* loadSourceMetadata of the dataset viewed ends in its catch in this step
ResolutionFails == lin.resolution = "pending" /\ lin'.resolution = "failed"

\* handleSaveAllLabels passes its confirmations and starts writing
SaveStarts == ~isSaving /\ isSaving'

\* C19: when the version is unsupported or the lineage document cannot be
\* fetched, resolution ends with no lineage: the loading flag is cleared,
\* sourceInfo is null, and every label load and commit issued from then on
\* uses the viewed (org, dataset, episode) as storage key.
C19_FailedResolutionPassesThrough ==
    [][/\ ResolutionFails => (~isLoadingSourceInfo' /\ lin'.sourceInfo = <<>>)
       /\ \A i \in lin'.issued : i.resolution = "failed" => i.key = i.viewed
       /\ (SaveStarts /\ lin.resolution = "failed")
             => SaveKey = ViewedKey(lin.dataset, lin.episodeId)]_vars

\* C20: loadSourceMetadata runs, and so the lineage document is fetched,
\* only in a step that changes the viewed (org, dataset): frame edits, frame
\* deletes, episode edits, commits and episode changes within the dataset
\* start no run; an episode change recomputes sourceInfo from the cached map.
C20_FetchOnlyOnDatasetChange ==
    [][/\ (lin'.started # lin.started) => (lin'.dataset # lin.dataset)
       /\ \A run \in lin'.runs \ lin.runs :
             \/ run.pc = "version" /\ lin'.dataset # lin.dataset
             \/ run.pc = "fetch" /\ [run EXCEPT !.pc = "version"] \in lin.runs
       /\ (lin'.dataset = lin.dataset /\ lin'.episodeId # lin.episodeId)
             => /\ lin'.episodesMetadataMap = lin.episodesMetadataMap
                /\ lin'.sourceInfo =
                      SourceInfoEffect(lin'.episodeId, lin.episodesMetadataMap)]_vars

C20_Witness ==
    /\ lin.navigations = 2
    /\ lin.started = 2
    /\ lin.runs = {}
    /\ lin.dataset = "b"
    /\ lin.episodeId = 1
    /\ lin.resolution = "resolved"
    /\ lin.sourceInfo # <<>>
    /\ lin.sourceInfo[1].episode = 9
    /\ frameLabels # <<>>
    /\ CommitSucceeded

\* the viewed episode changes within the dataset in this step
EpisodeSwitched == lin'.dataset = lin.dataset /\ lin'.episodeId # lin.episodeId

\* C21: while the dirty flag is true, a request to switch to another episode
\* (sidebar link, ArrowUp / ArrowDown) asks for confirmation before it
\* navigates; if the confirmation is declined there is no navigation and the
\* drafts, the pending deletions and the dirty flag are unchanged.
C21_DirtySwitchAsksFirst ==
    [][/\ (hasUnsavedChanges /\ EpisodeSwitched)
             => (lin'.switch.asked /\ lin'.switch.confirmed)
       /\ (/\ lin'.switch # lin.switch
           /\ hasUnsavedChanges
           /\ lin'.switch.target # lin.episodeId
           /\ ~lin'.switch.confirmed)
             => /\ lin'.switch.asked
                /\ lin'.episodeId = lin.episodeId
                /\ lin'.dataset = lin.dataset
                /\ UNCHANGED <<frameLabels, panel, episodeLabel,
                               deletedFrameIndices, hasUnsavedChanges>>]_vars

C21_Witness ==
    /\ lin.switch.via = "arrow"
    /\ lin.switch.dirty
    /\ lin.switch.asked
    /\ ~lin.switch.confirmed
    /\ lin.switch.target # lin.episodeId
    /\ lin.navigations = 1
    /\ hasUnsavedChanges
    /\ frameLabels # <<>>

\* loadLabels completes in this step: its state updates are applied
LoadCompletes == load.pc = "fr" /\ load'.pc = "done"

\* C22: no completion of loadLabels replaces drafts while the dirty flag is
\* true and clears the flag, the user not having confirmed a discard: a load
\* that completes on a dirty cache leaves the frame drafts, the pending
\* deletions and the dirty flag as they are.
C22_LoadNeverOverwritesDirtyDrafts ==
    [][(LoadCompletes /\ hasUnsavedChanges)
          => /\ hasUnsavedChanges'
             /\ frameLabels' = frameLabels
             /\ deletedFrameIndices' = deletedFrameIndices]_vars

\* the canonical target of an episode of a dataset: the lineage the
\* dataset's episodes.jsonl gives that episode
CanonicalTarget(viewed) ==
    LET dataset == viewed.dataset[1]
        metadataMap == parseEpisodesJsonl(EpisodesJsonl(dataset))
    IN  QueryKey(viewed, extractSourceInfo(viewed.episode, metadataMap))

\* C23: every load and commit issued for the viewed (dataset, episode) uses
\* the canonical target resolved for that episode: none is issued while
\* lineage resolution is pending, and none uses the lineage of an episode
\* or dataset viewed before.
C23_StoreKeyIsResolvedForViewedEpisode ==
    [][/\ \A i \in lin'.issued :
             /\ i.resolution # "pending"
             /\ i.resolution = "resolved" => i.key = CanonicalTarget(i.viewed)
       /\ SaveStarts =>
             /\ lin.resolution # "pending"
             /\ lin.resolution = "resolved" =>
                   SaveKey = CanonicalTarget(ViewedKey(lin.dataset, lin.episodeId))]_vars

\* the save reaches its success branch in this step
CommitSucceedsStep == commit.pc \in InFlightPcs /\ commit'.pc = "alert_ok"

\* C24: a frame delete made while a save is in flight is not lost when the
\* save succeeds: the frame is still pending deletion or has no row of the
\* labeller in the store; a frame draft written during the flight is still
\* in the cache; and the save sends the records of the cache at invocation.
C24_DeleteInFlightNotLost ==
    [][CommitSucceedsStep =>
          /\ \A f \in deletedFrameIndices \ commit.cache0.deletedFrameIndices :
                \/ f \in deletedFrameIndices'
                \/ ~\E r \in frame_labels' :
                       r.frame_idx = f /\ r.labeller_id = labellerId
          /\ frameLabels' = frameLabels
          /\ commit.frameLabels = commit.cache0.frameLabels
          /\ commit.deletedFrameIndices = commit.cache0.deletedFrameIndices]_vars

\* C25: a save is started only on a dirty cache with no save in flight, so
\* at most one save is in flight at any time; when it succeeds the session
\* is not dirty, when it fails the session is dirty.
C25_OneCommitFromDirty ==
    [][/\ SaveStarts => (hasUnsavedChanges /\ commit.pc = "idle")
       /\ (commit.pc # "idle") => isSaving
       /\ CommitSucceedsStep => ~hasUnsavedChanges'
       /\ CommitFailsStep => hasUnsavedChanges']_vars

\* what the store holds is what a load shows: the cache seeded from it
StoreShown ==
    /\ frameLabels = MapRows(OrderByFrameIdx(frame_labels))
    /\ (episode_labels = {}) <=> (episodeLabel = <<>>)

\* C26: after a load the session is clean only when the committed records
\* were read: when the episode select or the frame select returns an error,
\* the session does not become clean with drafts that differ from the store.
C26_CleanOnlyAfterSuccessfulLoad ==
    [][(LoadCompletes /\ ~hasUnsavedChanges') => StoreShown']_vars

\* C27: while a save is in flight the dirty flag stays true, so the
\* episode-switch confirmation and the beforeunload guard stay active until
\* the save has succeeded.
C27_DirtyWhileSaving ==
    (commit.pc \in InFlightPcs) => hasUnsavedChanges

\* handleSaveAllLabels returns at its declined confirmation in this step
SaveCancelledStep ==
    /\ gestures' # gestures
    /\ commit'.pc = "idle"
    /\ commit'.gesture = gestures'

\* C28: before a commit the pairing check is evaluated over the frame set
\* about to be committed, and its warnings do not block: a cancelled
\* confirmation issues no store operation and leaves the drafts, the
\* pending deletions, the dirty flag and isSaving unchanged; otherwise the
\* commit runs as it does without a warning.
C28_PairingCheckOverCommittedFrames ==
    [][/\ (SaveStarts \/ SaveCancelledStep)
             => commit'.pairingWarnings = checkPairedIssueTags(commit'.frameLabels)
       /\ SaveCancelledStep
             => UNCHANGED <<frameLabels, panel, episodeLabel, deletedFrameIndices,
                            hasUnsavedChanges, isSaving, labellers, frame_labels,
                            episode_labels>>
       /\ SaveStarts => commit'.pc = "labellers"]_vars

\* the issue tags the pairing table pairs with a recovery tag
IssueTagsOf(recoveryTag) ==
    {PAIRED_ISSUE_TAGS[i].tagA :
        i \in {k \in 1..Len(PAIRED_ISSUE_TAGS) : PAIRED_ISSUE_TAGS[k].tagB = recoveryTag}}

\* what the frames contribute to the issue count of a recovery group: each
\* frame as many as it carries issue tags of the group
IssueContributions(allLabels, recoveryTag) ==
    LET RECURSIVE sum(_)
        sum(i) == IF i > Len(allLabels) THEN 0
                  ELSE Cardinality(allLabels[i].issueTags \cap IssueTagsOf(recoveryTag))
                       + sum(i + 1)
    IN  sum(1)

\* the frames carrying the recovery tag
RecoveryFrames(allLabels, recoveryTag) ==
    {i \in 1..Len(allLabels) : recoveryTag \in allLabels[i].issueTags}

Reorderings(allLabels) ==
    {[i \in 1..Len(allLabels) |-> allLabels[p[i]]] :
        p \in {q \in [1..Len(allLabels) -> 1..Len(allLabels)] :
                   \A i, j \in 1..Len(allLabels) : q[i] = q[j] => i = j}}

\* C30: checkPairedIssueTags does not depend on the order of its input:
\* every permutation of the frame labels gives the same warning list, in
\* which a warning about left_arm_recovery comes before one about
\* right_arm_recovery and no recovery tag is warned about twice.
C30_OrderIndependent ==
    fn.op = "checkPairedIssueTags" =>
        /\ \A permuted \in Reorderings(fn.allLabels) :
              checkPairedIssueTags(permuted) = fn.warnings
        /\ \A i, j \in 1..Len(fn.warnings) :
              i < j => /\ fn.warnings[i].recoveryTag = "left_arm_recovery"
                       /\ fn.warnings[j].recoveryTag = "right_arm_recovery"

C30_Witness ==
    /\ fn.op = "checkPairedIssueTags"
    /\ Len(fn.allLabels) = 3
    /\ fn.allLabels[1].issueTags = {"right_arm_missed"}
    /\ fn.allLabels[2].issueTags = {}
    /\ fn.allLabels[3].issueTags = {"left_arm_missed"}
    /\ Len(fn.warnings) = 2
    /\ fn.warnings[1].recoveryTag = "left_arm_recovery"
    /\ fn.warnings[2].recoveryTag = "right_arm_recovery"

C32_NoZeroOrNegativeQuantity ==
    \A item \in LitterItems :
        panel.litterItems[item] # Absent => panel.litterItems[item] > 0

\* the entry the debounced copy still holds has been removed from the panel
C32_Witness ==
    /\ hasUnsavedChanges
    /\ episodeLabel # <<>>
    /\ \E item \in LitterItems :
          /\ episodeLabel[1].litterItems[item] > 0
          /\ panel.litterItems[item] = Absent

\* the episode upsert of the save in flight is answered with success
EpisodeUpsertDone == commit.pc = "episode" /\ commit'.pc \notin {"episode", "alert_failed"}

\* C33: the episode record a commit sends carries the field values the
\* episode panel had when the save was invoked, edits younger than the
\* debounce interval included, never the viewer's debounced copy.
C33_EpisodeRecordFromPanelAtInvocation ==
    [][EpisodeUpsertDone
          => episode_labels' =
                {EpisodeData([labellerId |-> labellerId,
                              qualityTag |-> commit.cache0.panel.qualityTag,
                              litterItems |-> commit.cache0.panel.litterItems],
                             labellerId)}]_vars

\* a save invoked before the debounced copy caught up with the panel has
\* written the panel's values
C33_Witness ==
    /\ commit.pc = "alert_ok"
    /\ commit.cache0.episodeLabel # <<>>
    /\ commit.cache0.episodeLabel[1].qualityTag # commit.cache0.panel.qualityTag
    /\ commit.cache0.panel.litterItems # commit.cache0.episodeLabel[1].litterItems
    /\ \E row \in episode_labels :
          /\ row.quality_tag = commit.cache0.panel.qualityTag
          /\ row.litter_items = LitterItemsToSave(commit.cache0.panel.litterItems)

\* every lineage resolution and every label load has been answered
LoadsSettled == lin.runs = {} /\ lin.loads = {}

\* C34: an answer to a label load issued for an identity no longer current
\* (an earlier episode, or an earlier canonical target of the episode) does
\* not stay in the cache: once every load is answered, the episode draft
\* and the frame drafts are those stored under the canonical target of the
\* viewed episode.
C34_SupersededLoadNeverShown ==
    (LoadsSettled /\ lin.resolution = "resolved") =>
        LET target == CanonicalTarget(ViewedKey(lin.dataset, lin.episodeId))
        IN  /\ lin.shown.episode = <<target>>
            /\ lin.shown.frames = <<target>>

\* handleClearAllLabels runs to its end in this step
ClearCompletes == clear.pc = "episode" /\ clear'.pc = "idle"

\* C35: clear-all resets the cache (no frame drafts, no episode draft, no
\* pending deletion, dirty false) only when both deletes succeeded: after a
\* delete that returned an error the session is not clean with an empty
\* cache while the store still holds records.
C35_ClearResetsOnlyAfterBothDeletes ==
    [][(/\ ClearCompletes
        /\ clear'.failed # {}
        /\ frame_labels' \cup episode_labels' # {})
          => ~(/\ frameLabels' = <<>>
               /\ episodeLabel' = <<>>
               /\ deletedFrameIndices' = {}
               /\ ~hasUnsavedChanges')]_vars

\* C36: the storage key of loads and commits is never a mixture: it is the
\* viewed (org, dataset, episode), or it is the org, the dataset and the
\* episode index of the lineage source, also for an entry whose
\* source_episode_index is present but null.
C36_StorageKeyNeverMixed ==
    fn.op = "extractSourceInfo" =>
        \/ fn.queryKey = Viewed
        \/ /\ fn.sourceInfo # <<>>
           /\ fn.sourceInfo[1].episode # JsonNull
           /\ fn.queryKey = [org |-> fn.sourceInfo[1].org,
                             dataset |-> fn.sourceInfo[1].dataset,
                             episode |-> fn.sourceInfo[1].episode]

\* C37: nothing is read from, written to or deleted from the store before
\* the labeller identity is known: while labellerId is null no load, no
\* save and no clear-all is in flight and the tables do not change.
C37_NoStoreAccessWithoutLabeller ==
    [][labellerId' = NULL
          => /\ load'.pc = "idle"
             /\ commit'.pc = "idle"
             /\ clear'.pc = "idle"
             /\ UNCHANGED <<labellers, frame_labels, episode_labels>>]_vars

\* the lineage has settled, so only the missing labeller id holds the
\* load back
C37_Witness ==
    /\ labellerId = NULL
    /\ ~isLoadingSourceInfo
    /\ load.pc = "idle"
    /\ commit.pc = "idle"
    /\ clear.pc = "idle"

\* C38: every save that was started leaves the Saving state, after success
\* and after a failure at any step, provided its store calls return.
C38_SavingEnds == isSaving ~> ~isSaving

\* a save whose labeller upsert was answered has ended without writing the
\* frame drafts, and the save action is enabled again
C38_Witness ==
    /\ ~isSaving
    /\ commit.pc = "idle"
    /\ labellers # {}
    /\ hasUnsavedChanges
    /\ frameLabels # <<>>
    /\ frame_labels = {}

\* C39: the frame drafts hold at most one record per frame index: an edit
\* of a frame that has a draft replaces it.
C39_OneDraftPerFrame ==
    \A i, j \in 1..Len(frameLabels) :
        frameLabels[i].frameIdx = frameLabels[j].frameIdx => i = j

\* the second edit of frame 0 took the place of the first, which the
\* keyboard handler's closure still holds
C39_Witness ==
    /\ Len(frameLabels) = 1
    /\ frameLabels[1] = FrameLabel(0, labellerId, InputB)
    /\ kb.frameLabels = <<FrameLabel(0, labellerId, InputA)>>

====
